---- MODULE Spec2Model ----
(***************************************************************************)
(* The scanner of rlox (src/src/scanner.rs): Scanner::scan_tokens and the  *)
(* sub-scanners it drives, as a state machine over one Scanner instance.   *)
(* A source is a sequence of code points; a code point is written as a     *)
(* one-character string and ordered by CodePoint.  One step of the model   *)
(* is one arm of scan_token's match (with the main loop's test and         *)
(* `start = current` before it) or one iteration of a sub-scanner loop.    *)
(***************************************************************************)
EXTENDS Integers, Sequences, FiniteSets, TLC

VARIABLES source, tokens, start, current, line, nesting_layer, pc, result,
          spans

vars == <<source, tokens, start, current, line, nesting_layer, pc, result,
          spans>>

-----------------------------------------------------------------------------
(* Bounds of the checked inputs.                                           *)

MaxLen == 4

MaxCommentLen == 8

MaxIdentLen == 3

\* Helper calls: strings of up to MaxStrLen code points, indices 0..MaxIndex.
MaxStrLen == 3

MaxIndex == 5

-----------------------------------------------------------------------------
(* Code points.                                                            *)

\* '\0', the sentinel peek, peek_next and char_at return past the end.
NUL == "NUL"

Lower == <<"a", "b", "c", "d", "e", "f", "g", "h", "i", "j", "k", "l", "m",
           "n", "o", "p", "q", "r", "s", "t", "u", "v", "w", "x", "y", "z">>

Upper == <<"A", "B", "C", "D", "E", "F", "G", "H", "I", "J", "K", "L", "M",
           "N", "O", "P", "Q", "R", "S", "T", "U", "V", "W", "X", "Y", "Z">>

Digits == <<"0", "1", "2", "3", "4", "5", "6", "7", "8", "9">>

\* The scalar value of each code point the model uses (Rust compares chars
\* by scalar value).
CodePoint ==
    [i \in {} |-> 0]
    @@ (NUL :> 0) @@ ("\t" :> 9) @@ ("\n" :> 10) @@ ("\r" :> 13)
    @@ (" " :> 32) @@ ("!" :> 33) @@ ("\"" :> 34) @@ ("#" :> 35)
    @@ ("(" :> 40) @@ (")" :> 41) @@ ("*" :> 42) @@ ("+" :> 43)
    @@ ("," :> 44) @@ ("-" :> 45) @@ ("." :> 46) @@ ("/" :> 47)
    @@ (":" :> 58) @@ (";" :> 59) @@ ("<" :> 60) @@ ("=" :> 61)
    @@ (">" :> 62) @@ ("@" :> 64) @@ ("[" :> 91) @@ ("^" :> 94)
    @@ ("_" :> 95) @@ ("{" :> 123) @@ ("}" :> 125)
    @@ [c \in {Digits[i] : i \in 1..10} |-> 47 + CHOOSE i \in 1..10 : Digits[i] = c]
    @@ [c \in {Upper[i] : i \in 1..26} |-> 64 + CHOOSE i \in 1..26 : Upper[i] = c]
    @@ [c \in {Lower[i] : i \in 1..26} |-> 96 + CHOOSE i \in 1..26 : Lower[i] = c]

-----------------------------------------------------------------------------
(* Helper functions (scanner.rs, "Helper functions").                      *)

str_len(s) == Len(s)

char_at(s, pos) ==
    IF pos >= str_len(s) THEN NUL ELSE s[pos + 1]

\* substring taking `end` code points after the skip instead of `end - start`
\* (as the substring of lib.rs does).
substring_take_end(s, st, en) ==
    IF st > en \/ st >= str_len(s)
    THEN <<>>
    ELSE LET end == IF en > str_len(s) THEN str_len(s) ELSE en
             last == IF st + end > str_len(s) THEN str_len(s) ELSE st + end
         IN  SubSeq(s, st + 1, last)

substring(s, st, en) ==
    IF st > en \/ st >= str_len(s)
    THEN <<>>
    ELSE LET end == IF en > str_len(s) THEN str_len(s) ELSE en
         IN  SubSeq(s, st + 1, end)

is_digit(c) ==
    CodePoint[c] >= CodePoint["0"] /\ CodePoint[c] <= CodePoint["9"]

is_alpha(c) ==
    \/ (CodePoint[c] >= CodePoint["a"] /\ CodePoint[c] <= CodePoint["z"])
    \/ (CodePoint[c] >= CodePoint["A"] /\ CodePoint[c] <= CodePoint["Z"])
    \/ c = "_"

is_alphanumeric(c) == is_alpha(c) \/ is_digit(c)

-----------------------------------------------------------------------------
(* Token, Error and the keyword table.                                     *)

Token(type, lexeme, literal, ln) ==
    [type |-> type, lexeme |-> lexeme, literal |-> literal, line |-> ln]

\* Error::new(message, where, line); the block-comment fault passes no where.
Error(message, where, ln) ==
    [message |-> message, where |-> where, line |-> ln]

keywords ==
    (<<"a", "n", "d">> :> "And")
    @@ (<<"o", "r">> :> "Or")
    @@ (<<"i", "f">> :> "If")
    @@ (<<"e", "l", "s", "e">> :> "Else")
    @@ (<<"f", "o", "r">> :> "For")
    @@ (<<"w", "h", "i", "l", "e">> :> "While")
    @@ (<<"v", "a", "r">> :> "Var")
    @@ (<<"c", "l", "a", "s", "s">> :> "Class")
    @@ (<<"f", "u", "n">> :> "Fun")
    @@ (<<"r", "e", "t", "u", "r", "n">> :> "Return")
    @@ (<<"p", "r", "i", "n", "t">> :> "Print")
    @@ (<<"s", "u", "p", "e", "r">> :> "Super")
    @@ (<<"t", "h", "i", "s">> :> "This")
    @@ (<<"t", "r", "u", "e">> :> "True")
    @@ (<<"f", "a", "l", "s", "e">> :> "False")
    @@ (<<"n", "i", "l">> :> "Nil")

\* The lookup matching a reserved word that is a prefix of the text instead
\* of the whole text.
keywords_get_prefix(text) ==
    LET hits == {k \in DOMAIN keywords :
                    Len(k) <= Len(text) /\ SubSeq(text, 1, Len(k)) = k}
    IN  IF hits # {} THEN keywords[CHOOSE k \in hits : TRUE] ELSE "Identifier"

\* self.keywords.get(&text): Some(t) => *t, None => Identifier.
keywords_get(text) ==
    IF text \in DOMAIN keywords THEN keywords[text] ELSE "Identifier"

\* The match arms that emit one token for one code point.
SingleChar ==
    ("(" :> "LeftParen") @@ (")" :> "RightParen")
    @@ ("{" :> "LeftBrace") @@ ("}" :> "RightBrace")
    @@ ("," :> "Comma") @@ ("." :> "Dot") @@ ("-" :> "Minus")
    @@ ("+" :> "Plus") @@ (";" :> "Semicolon") @@ ("*" :> "Star")

\* The match arms that look ahead for '=': <<one-character kind, two-character kind>>.
Operator ==
    ("!" :> <<"Bang", "BangEqual">>) @@ ("=" :> <<"Equal", "EqualEqual">>)
    @@ ("<" :> <<"Less", "LessEqual">>) @@ (">" :> <<"Greater", "GreaterEqual">>)

-----------------------------------------------------------------------------
(* Cursor methods, over an explicit cursor value.                          *)

is_at_end(cur) == cur >= str_len(source)

peek(cur) ==
    IF is_at_end(cur) THEN NUL ELSE char_at(source, cur)

peek_next(cur) ==
    IF cur + 1 >= str_len(source) THEN NUL ELSE char_at(source, cur + 1)

\* self.current += 1; returns the code point passed and the new cursor.
advance(cur) ==
    [c |-> char_at(source, cur), current |-> cur + 1]

\* advance_if_equal with the comparison inverted (`p == c` for `p != c`).
advance_if_equal_inverted(cur, c) ==
    LET p == peek(cur)
    IN  IF p = NUL \/ p = c
        THEN [matched |-> FALSE, current |-> cur]
        ELSE [matched |-> TRUE, current |-> advance(cur).current]

\* Consumes the next code point if it is c; returns whether it did and the cursor.
advance_if_equal(cur, c) ==
    LET p == peek(cur)
    IN  IF p = NUL \/ p # c
        THEN [matched |-> FALSE, current |-> cur]
        ELSE [matched |-> TRUE, current |-> advance(cur).current]

\* add_token_literal storing the token as the whole buffer instead of
\* pushing it.
add_token_literal_replace(toks, type, literal, st, cur, ln) ==
    <<Token(type, substring(source, st, cur), literal, ln)>>

\* add_token_literal with the lexeme cut one code point short.
add_token_literal_short(toks, type, literal, st, cur, ln) ==
    Append(toks, Token(type, substring(source, st, cur - 1), literal, ln))

\* self.tokens.push(Token::new(type, substring(source, start, current), literal, line))
add_token_literal(toks, type, literal, st, cur, ln) ==
    Append(toks, Token(type, substring(source, st, cur), literal, ln))

add_token(toks, type, st, cur, ln) ==
    add_token_literal(toks, type, <<>>, st, cur, ln)

-----------------------------------------------------------------------------
(* Inputs.                                                                 *)

SeqsUpTo(S, n) == UNION {[1..k -> S] : k \in 0..n}

GeneralAlphabet == {"/", "*", "\n", " ", "\"", "=", "<", "!", ".", "1", "a", "@"}

CommentAlphabet == {"/", "*", "\n"}

IdentAlphabet == {"o", "r", "O", "_", "1", " "}

ExampleSources ==
    { <<"/", "*", " ", "a", " ", "/", "*", " ", "b", " ", "*", "/", " ", "c", " ", "*", "/">>,
      <<"v", "a", "r", " ", "x", " ", "=", " ", "5", ";">>,
      <<"c", "l", "a", "s", "s", "i", "c">>,
      <<"\"", "u", "n", "t", "e", "r", "m", "i", "n", "a", "t", "e", "d">>,
      <<"1", "0", ".">>,
      <<"1", "2", ".", "5", ".", "7", ".", ".", "3">>,
      <<"(", ")", "{", "}", ",", ".", "-", "+", ";", "*", "/">>,
      <<"!", "=", "!", ">", "=", ">", "<", "=", "=", "=">>,
      <<" ", "\t", "\r", "\n", "/", "/", " ", "x", "\n", "/", "*", "\n", "*", "/", "\n">>,
      <<"V", "a", "r", " ", "_", "Z", "9", " ", "n", "i", "l", "[">>,
      <<"^", "a">>, <<"#">>, <<":">>,
      <<"/", "*", "\n", "*", "/", "@">>,
      <<"\"", "#", "\"", "/", "*", "#", "*", "/", "/", "/", "#", "\n", "#">>,
      <<"a", "n", "d", " ", "c", "l", "a", "s", "s", " ", "e", "l", "s", "e", " ",
        "f", "a", "l", "s", "e", " ", "f", "o", "r", " ", "f", "u", "n", " ",
        "i", "f", " ", "n", "i", "l", " ", "o", "r", " ", "p", "r", "i", "n", "t", " ",
        "r", "e", "t", "u", "r", "n", " ", "s", "u", "p", "e", "r", " ",
        "t", "h", "i", "s", " ", "t", "r", "u", "e", " ", "v", "a", "r", " ",
        "w", "h", "i", "l", "e">> }

Sources ==
    SeqsUpTo(GeneralAlphabet, MaxLen)
    \cup SeqsUpTo(CommentAlphabet, MaxCommentLen)
    \cup SeqsUpTo(IdentAlphabet, MaxIdentLen)
    \cup ExampleSources

-----------------------------------------------------------------------------
(* Scanner::new, then scan_tokens.                                         *)

Pending == [tag |-> "Pending"]

Ok(toks) == [tag |-> "Ok", tokens |-> toks]

Err(e) == [tag |-> "Err", error |-> e]

\* Scanner::new with the line counter started at 0 (as the Scanner of
\* lib.rs starts it).
InitLineZero ==
    /\ source \in Sources
    /\ tokens = <<>>
    /\ start = 0
    /\ current = 0
    /\ line = 0
    /\ nesting_layer = 0
    /\ pc = "scan_tokens"
    /\ result = Pending
    /\ spans = <<>>

Init ==
    /\ source \in Sources
    /\ tokens = <<>>
    /\ start = 0
    /\ current = 0
    /\ line = 1
    /\ nesting_layer = 0
    /\ pc = "scan_tokens"
    /\ result = Pending
    /\ spans = <<>>

\* The head of scan_tokens' loop: `while !self.is_at_end()`.
AtLoopHead == pc = "scan_tokens" /\ ~is_at_end(current)

\* let c = self.advance();
NextChar == advance(current).c

\* '(' ')' '{' '}' ',' '.' '-' '+' ';' '*'
SingleCharToken ==
    /\ AtLoopHead
    /\ NextChar \in DOMAIN SingleChar
    /\ start' = current
    /\ current' = advance(current).current
    /\ tokens' = add_token(tokens, SingleChar[NextChar], start', current', line)
    /\ UNCHANGED <<source, line, nesting_layer, pc, result>>

\* '!' '=' '<' '>'
OperatorToken ==
    /\ AtLoopHead
    /\ NextChar \in DOMAIN Operator
    /\ start' = current
    /\ LET m == advance_if_equal(advance(current).current, "=")
           type == IF m.matched THEN Operator[NextChar][2] ELSE Operator[NextChar][1]
       IN  /\ current' = m.current
           /\ tokens' = add_token(tokens, type, start', current', line)
    /\ UNCHANGED <<source, line, nesting_layer, pc, result>>

\* '/': a line comment, a block comment or Slash.
SlashToken ==
    /\ AtLoopHead
    /\ NextChar = "/"
    /\ start' = current
    /\ LET m1 == advance_if_equal(advance(current).current, "/")
           m2 == advance_if_equal(m1.current, "*")
       IN  IF m1.matched
           THEN /\ current' = m1.current
                /\ pc' = "line_comment"
                /\ UNCHANGED <<tokens, nesting_layer>>
           ELSE IF m2.matched
           THEN /\ current' = m2.current
                /\ pc' = "block_comment"
                /\ nesting_layer' = 1
                /\ UNCHANGED tokens
           ELSE /\ current' = m2.current
                /\ tokens' = add_token(tokens, "Slash", start', current', line)
                /\ UNCHANGED <<pc, nesting_layer>>
    /\ UNCHANGED <<source, line, result>>

\* The line-comment loop without its test for the end of input.
LineCommentNoEndTest ==
    /\ pc = "line_comment"
    /\ IF peek(current) # "\n"
       THEN /\ current' = advance(current).current
            /\ UNCHANGED pc
       ELSE /\ pc' = "scan_tokens"
            /\ UNCHANGED current
    /\ UNCHANGED <<source, tokens, start, line, nesting_layer, result>>

\* while self.peek() != '\n' && !self.is_at_end() { self.advance(); }
LineComment ==
    /\ pc = "line_comment"
    /\ IF peek(current) # "\n" /\ ~is_at_end(current)
       THEN /\ current' = advance(current).current
            /\ UNCHANGED pc
       ELSE /\ pc' = "scan_tokens"
            /\ UNCHANGED current
    /\ UNCHANGED <<source, tokens, start, line, nesting_layer, result>>

\* The message of the fault raised at end of input inside a block comment.
UnbalancedMessage(layer) ==
    IF layer > 0
    THEN "Unbalanced block comment: missing closing */"
    ELSE "Unbalanced block comment"

\* The block comment's loop with the inner "*/" branch left empty: at a
\* "*/" below the outermost level it neither consumes nor counts down.
BlockCommentNoDecrement ==
    /\ pc = "block_comment"
    /\ IF is_at_end(current)
       THEN /\ result' = Err(Error(UnbalancedMessage(nesting_layer), <<>>, line))
            /\ pc' = "returned"
            /\ UNCHANGED <<current, nesting_layer>>
       ELSE IF peek(current) = "/" /\ peek_next(current) = "*"
       THEN /\ current' = advance(advance(current).current).current
            /\ nesting_layer' = nesting_layer + 1
            /\ UNCHANGED <<pc, result>>
       ELSE IF peek(current) = "*" /\ peek_next(current) = "/"
       THEN IF nesting_layer = 1
            THEN /\ current' = advance(advance(current).current).current
                 /\ pc' = "scan_tokens"
                 /\ nesting_layer' = 0
                 /\ UNCHANGED result
            ELSE UNCHANGED <<current, nesting_layer, pc, result>>
       ELSE /\ current' = advance(current).current
            /\ UNCHANGED <<nesting_layer, pc, result>>
    /\ UNCHANGED <<source, tokens, start, line>>

\* The block comment's loop closing on `nesting_layer == 0` instead of 1.
BlockCommentCloseAtZero ==
    /\ pc = "block_comment"
    /\ IF is_at_end(current)
       THEN /\ result' = Err(Error(UnbalancedMessage(nesting_layer), <<>>, line))
            /\ pc' = "returned"
            /\ UNCHANGED <<current, nesting_layer>>
       ELSE IF peek(current) = "/" /\ peek_next(current) = "*"
       THEN /\ current' = advance(advance(current).current).current
            /\ nesting_layer' = nesting_layer + 1
            /\ UNCHANGED <<pc, result>>
       ELSE IF peek(current) = "*" /\ peek_next(current) = "/"
       THEN IF nesting_layer = 0
            THEN /\ current' = advance(advance(current).current).current
                 /\ pc' = "scan_tokens"
                 /\ nesting_layer' = 0
                 /\ UNCHANGED result
            ELSE /\ nesting_layer' = nesting_layer - 1
                 /\ UNCHANGED <<current, pc, result>>
       ELSE /\ current' = advance(current).current
            /\ UNCHANGED <<nesting_layer, pc, result>>
    /\ UNCHANGED <<source, tokens, start, line>>

\* One iteration of the block comment's `loop`.
BlockComment ==
    /\ pc = "block_comment"
    /\ IF is_at_end(current)
       THEN /\ result' = Err(Error(UnbalancedMessage(nesting_layer), <<>>, line))
            /\ pc' = "returned"
            /\ UNCHANGED <<current, nesting_layer>>
       ELSE IF peek(current) = "/" /\ peek_next(current) = "*"
       THEN /\ current' = advance(advance(current).current).current
            /\ nesting_layer' = nesting_layer + 1
            /\ UNCHANGED <<pc, result>>
       ELSE IF peek(current) = "*" /\ peek_next(current) = "/"
       THEN IF nesting_layer = 1
            THEN /\ current' = advance(advance(current).current).current
                 /\ pc' = "scan_tokens"
                 /\ nesting_layer' = 0
                 /\ UNCHANGED result
            ELSE /\ nesting_layer' = nesting_layer - 1
                 /\ UNCHANGED <<current, pc, result>>
       ELSE /\ current' = advance(current).current
            /\ UNCHANGED <<nesting_layer, pc, result>>
    /\ UNCHANGED <<source, tokens, start, line>>

\* ' ' | '\r' | '\t' => {}
Whitespace ==
    /\ AtLoopHead
    /\ NextChar \in {" ", "\r", "\t"}
    /\ start' = current
    /\ current' = advance(current).current
    /\ UNCHANGED <<source, tokens, line, nesting_layer, pc, result>>

\* '\n' => self.line += 1
Newline ==
    /\ AtLoopHead
    /\ NextChar = "\n"
    /\ start' = current
    /\ current' = advance(current).current
    /\ line' = line + 1
    /\ UNCHANGED <<source, tokens, nesting_layer, pc, result>>

\* '"' => self.read_string()?
StringStart ==
    /\ AtLoopHead
    /\ NextChar = "\""
    /\ start' = current
    /\ current' = advance(current).current
    /\ pc' = "read_string"
    /\ UNCHANGED <<source, tokens, line, nesting_layer, result>>

\* read_string with the literal cut one code point late: it keeps the
\* closing quote (substring(start + 1, current) for current - 1).
ReadStringLiteralKeepsQuote ==
    /\ pc = "read_string"
    /\ IF peek(current) # "\"" /\ ~is_at_end(current)
       THEN /\ line' = IF peek(current) = "\n" THEN line + 1 ELSE line
            /\ current' = advance(current).current
            /\ UNCHANGED <<tokens, pc, result>>
       ELSE IF is_at_end(current)
       THEN /\ result' = Err(Error("Unterminated string", <<>>, line))
            /\ pc' = "returned"
            /\ UNCHANGED <<tokens, current, line>>
       ELSE /\ current' = advance(current).current
            /\ tokens' = add_token_literal(tokens, "String",
                             substring(source, start + 1, current'),
                             start, current', line)
            /\ pc' = "scan_tokens"
            /\ UNCHANGED <<line, result>>
    /\ UNCHANGED <<source, start, nesting_layer>>

\* read_string without the test for the end of input after its loop: the
\* input's end is taken for the closing quote.
ReadStringNoUnterminatedCheck ==
    /\ pc = "read_string"
    /\ IF peek(current) # "\"" /\ ~is_at_end(current)
       THEN /\ line' = IF peek(current) = "\n" THEN line + 1 ELSE line
            /\ current' = advance(current).current
            /\ UNCHANGED <<tokens, pc, result>>
       ELSE /\ current' = advance(current).current
            /\ tokens' = add_token_literal(tokens, "String",
                             substring(source, start + 1, current' - 1),
                             start, current', line)
            /\ pc' = "scan_tokens"
            /\ UNCHANGED <<line, result>>
    /\ UNCHANGED <<source, start, nesting_layer>>

\* read_string: one iteration of its loop, or the code after the loop.
ReadString ==
    /\ pc = "read_string"
    /\ IF peek(current) # "\"" /\ ~is_at_end(current)
       THEN /\ line' = IF peek(current) = "\n" THEN line + 1 ELSE line
            /\ current' = advance(current).current
            /\ UNCHANGED <<tokens, pc, result>>
       ELSE IF is_at_end(current)
       THEN /\ result' = Err(Error("Unterminated string", <<>>, line))
            /\ pc' = "returned"
            /\ UNCHANGED <<tokens, current, line>>
       ELSE /\ current' = advance(current).current
            /\ tokens' = add_token_literal(tokens, "String",
                             substring(source, start + 1, current' - 1),
                             start, current', line)
            /\ pc' = "scan_tokens"
            /\ UNCHANGED <<line, result>>
    /\ UNCHANGED <<source, start, nesting_layer>>

\* The default arm when is_digit(c): self.read_number()?
NumberStart ==
    /\ AtLoopHead
    /\ NextChar \notin DOMAIN SingleChar \cup DOMAIN Operator \cup {"/", " ", "\r", "\t", "\"", "\n"}
    /\ is_digit(NextChar)
    /\ start' = current
    /\ current' = advance(current).current
    /\ pc' = "read_number"
    /\ UNCHANGED <<source, tokens, line, nesting_layer, result>>

\* read_number taking a '.' as the start of a fractional part without the
\* look at the code point after it.
ReadNumberNoLookahead ==
    /\ pc = "read_number"
    /\ IF is_digit(peek(current))
       THEN /\ current' = advance(current).current
            /\ UNCHANGED <<tokens, pc>>
       ELSE IF peek(current) = "."
       THEN /\ current' = advance(current).current
            /\ pc' = "read_number_fraction"
            /\ UNCHANGED tokens
       ELSE /\ tokens' = add_token_literal(tokens, "Number",
                             substring(source, start, current), start, current, line)
            /\ pc' = "scan_tokens"
            /\ UNCHANGED current
    /\ UNCHANGED <<source, start, line, nesting_layer, result>>

\* read_number: one iteration of the first digit loop, or the look for a
\* fractional part after it.
ReadNumber ==
    /\ pc = "read_number"
    /\ IF is_digit(peek(current))
       THEN /\ current' = advance(current).current
            /\ UNCHANGED <<tokens, pc>>
       ELSE IF peek(current) = "." /\ is_digit(peek_next(current))
       THEN /\ current' = advance(current).current
            /\ pc' = "read_number_fraction"
            /\ UNCHANGED tokens
       ELSE /\ tokens' = add_token_literal(tokens, "Number",
                             substring(source, start, current), start, current, line)
            /\ pc' = "scan_tokens"
            /\ UNCHANGED current
    /\ UNCHANGED <<source, start, line, nesting_layer, result>>

\* read_number: one iteration of the second digit loop, or the add_token_literal.
ReadNumberFraction ==
    /\ pc = "read_number_fraction"
    /\ IF is_digit(peek(current))
       THEN /\ current' = advance(current).current
            /\ UNCHANGED <<tokens, pc>>
       ELSE /\ tokens' = add_token_literal(tokens, "Number",
                             substring(source, start, current), start, current, line)
            /\ pc' = "scan_tokens"
            /\ UNCHANGED current
    /\ UNCHANGED <<source, start, line, nesting_layer, result>>

\* The default arm when is_alpha(c): self.read_identifier()?
IdentifierStart ==
    /\ AtLoopHead
    /\ NextChar \notin DOMAIN SingleChar \cup DOMAIN Operator \cup {"/", " ", "\r", "\t", "\"", "\n"}
    /\ ~is_digit(NextChar)
    /\ is_alpha(NextChar)
    /\ start' = current
    /\ current' = advance(current).current
    /\ pc' = "read_identifier"
    /\ UNCHANGED <<source, tokens, line, nesting_layer, result>>

\* read_identifier: one iteration of its loop, or the keyword lookup after it.
ReadIdentifier ==
    /\ pc = "read_identifier"
    /\ IF is_alphanumeric(peek(current))
       THEN /\ current' = advance(current).current
            /\ UNCHANGED <<tokens, pc>>
       ELSE LET text == substring(source, start, current)
                t == keywords_get(text)
            IN  /\ tokens' = IF t = "Identifier"
                             THEN add_token_literal(tokens, t, text, start, current, line)
                             ELSE add_token(tokens, t, start, current, line)
                /\ pc' = "scan_tokens"
                /\ UNCHANGED current
    /\ UNCHANGED <<source, start, line, nesting_layer, result>>

\* The default arm with the fault reported but not propagated: the main loop
\* goes on (scan_token's result dropped instead of `?`).
UnexpectedCharacterNotPropagated ==
    /\ AtLoopHead
    /\ NextChar \notin DOMAIN SingleChar \cup DOMAIN Operator \cup {"/", " ", "\r", "\t", "\"", "\n"}
    /\ ~is_digit(NextChar)
    /\ ~is_alpha(NextChar)
    /\ start' = current
    /\ current' = advance(current).current
    /\ result' = Err(Error("Unexpected character.", <<>>, line))
    /\ UNCHANGED <<source, tokens, line, nesting_layer, pc>>

\* The default arm otherwise: return Err("Unexpected character.")
UnexpectedCharacter ==
    /\ AtLoopHead
    /\ NextChar \notin DOMAIN SingleChar \cup DOMAIN Operator \cup {"/", " ", "\r", "\t", "\"", "\n"}
    /\ ~is_digit(NextChar)
    /\ ~is_alpha(NextChar)
    /\ start' = current
    /\ current' = advance(current).current
    /\ result' = Err(Error("Unexpected character.", <<>>, line))
    /\ pc' = "returned"
    /\ UNCHANGED <<source, tokens, line, nesting_layer>>

\* The Eof token scan_tokens pushes after its loop.
EofToken(ln) == Token("Eof", <<>>, <<>>, ln)

\* scan_tokens returning after its loop without the push of Eof.
ScanTokensEndNoEof ==
    /\ pc = "scan_tokens"
    /\ is_at_end(current)
    /\ result' = Ok(tokens)
    /\ pc' = "returned"
    /\ UNCHANGED <<source, tokens, start, current, line, nesting_layer>>

\* After the loop: push Eof and return Ok(&self.tokens).
ScanTokensEnd ==
    /\ pc = "scan_tokens"
    /\ is_at_end(current)
    /\ tokens' = Append(tokens, EofToken(line))
    /\ result' = Ok(tokens')
    /\ pc' = "returned"
    /\ UNCHANGED <<source, start, current, line, nesting_layer>>

\* The scanner observed: spans holds, for every token add_token_literal has
\* pushed, the values of self.start and self.current it read. Taken with
\* every step: a step that ran add_token_literal appends the pair; the push
\* of Eof reads neither.
RecordSpan ==
    spans' = IF Len(tokens') > Len(tokens) /\ tokens'[Len(tokens')].type # "Eof"
             THEN Append(spans, <<start', current'>>)
             ELSE spans

Next ==
    \/ SingleCharToken /\ RecordSpan
    \/ OperatorToken /\ RecordSpan
    \/ SlashToken /\ RecordSpan
    \/ LineComment /\ RecordSpan
    \/ BlockComment /\ RecordSpan
    \/ Whitespace /\ RecordSpan
    \/ Newline /\ RecordSpan
    \/ StringStart /\ RecordSpan
    \/ ReadString /\ RecordSpan
    \/ NumberStart /\ RecordSpan
    \/ ReadNumber /\ RecordSpan
    \/ ReadNumberFraction /\ RecordSpan
    \/ IdentifierStart /\ RecordSpan
    \/ ReadIdentifier /\ RecordSpan
    \/ UnexpectedCharacter /\ RecordSpan
    \/ ScanTokensEnd /\ RecordSpan

Spec == Init /\ [][Next]_vars

\* scan_tokens run to completion: the loop keeps taking steps while one is
\* possible (a single thread executing `while !self.is_at_end()`).
FairSpec == Spec /\ WF_vars(Next)

-----------------------------------------------------------------------------
(* What the specification's words mean, written without the scanner: the   *)
(* claims below compare the scanner with these.                            *)

\* A nested block comment whose opening was consumed, read from cursor i at
\* depth d as section 4.2 of the specification describes: the cursor after
\* the */ that brings the depth to 0, or -1 if the input ends first.
RECURSIVE CommentEnd(_, _, _)
CommentEnd(s, i, d) ==
    IF i >= Len(s) THEN -1
    ELSE IF i + 1 < Len(s) /\ s[i + 1] = "/" /\ s[i + 2] = "*"
    THEN CommentEnd(s, i + 2, d + 1)
    ELSE IF i + 1 < Len(s) /\ s[i + 1] = "*" /\ s[i + 2] = "/"
    THEN IF d = 1 THEN i + 2 ELSE CommentEnd(s, i + 2, d - 1)
    ELSE CommentEnd(s, i + 1, d)

OpensBlockComment(s) == Len(s) >= 2 /\ s[1] = "/" /\ s[2] = "*"

\* The source is one balanced block comment and nothing else.
IsBalancedComment(s) == OpensBlockComment(s) /\ CommentEnd(s, 2, 1) = Len(s)

\* The source opens a block comment that the input never closes.
IsUnclosedComment(s) == OpensBlockComment(s) /\ CommentEnd(s, 2, 1) = -1

\* The number of '\n' among the first n code points of s.
NewlinesBefore(s, n) == Cardinality({i \in 1..n : s[i] = "\n"})

Returned == pc = "returned"

-----------------------------------------------------------------------------
(* Claims.                                                                 *)

\* C1: a source that is one balanced nested block comment scans to exactly
\* [Eof]: no token is emitted for it, and the main loop resumes only at the
\* code point after the */ that closes the outermost level.
C1_BalancedCommentOnlyEof ==
    IsBalancedComment(source) =>
        /\ pc = "scan_tokens" => current \in {0, Len(source)}
        /\ ~Returned => tokens = <<>>
        /\ Returned => /\ result.tag = "Ok"
                       /\ Len(result.tokens) = 1
                       /\ result.tokens[1].type = "Eof"

\* C2: when the input ends before every opened /* has been closed by its own
\* */, the scan returns the error "missing closing */" with the scanner's
\* line, never a token sequence.
C2_UnclosedCommentFails ==
    (IsUnclosedComment(source) /\ Returned) =>
        /\ result.tag = "Err"
        /\ result.error.message = "Unbalanced block comment: missing closing */"
        /\ result.error.line = line

\* C3: fail-fast; the step that detects a fault returns it, an Err result is
\* final (no later step changes the cursor, the line counter, the token
\* buffer or the result), and the token buffer of a failed scan holds no Eof.
C3_FailFast ==
    /\ [](result.tag = "Err" =>
            /\ Returned
            /\ \A i \in 1..Len(tokens) : tokens[i].type # "Eof")
    /\ [][result.tag = "Err" => UNCHANGED vars]_vars
    /\ [][(result.tag = "Pending" /\ result'.tag = "Err") =>
            /\ tokens' = tokens
            /\ line' = line
            /\ result'.error.line = line]_vars

\* C3 witness: a fault returned after tokens were produced, with input left.
C3_Witness ==
    /\ result.tag = "Err"
    /\ Len(tokens) >= 2
    /\ current < Len(source)

\* C4: at every main-loop boundary line = 1 + the number of '\n' in
\* source[0..current), and the Eof token's line = 1 + the number of '\n' in
\* the whole source.
C4_LineCountsNewlines ==
    /\ pc = "scan_tokens" => line = 1 + NewlinesBefore(source, current)
    /\ result.tag = "Ok" =>
           result.tokens[Len(result.tokens)].line = 1 + NewlinesBefore(source, Len(source))

\* A step that appends one token to the buffer.
Emits == Len(tokens') = Len(tokens) + 1

LastToken(toks) == toks[Len(toks)]

\* C5: every emitted token's line is the source line on which the token
\* started: 1 + the number of '\n' before the code point at index start.
C5_TokenLineIsStartLine ==
    [][(Emits /\ LastToken(tokens').type # "Eof") =>
           LastToken(tokens').line = 1 + NewlinesBefore(source, start')]_vars

\* C6: a successful scan returns the token buffer, whose last token is Eof
\* with empty lexeme, empty literal and the final line count; Eof occurs
\* only there, and only once the cursor has reached the end of the source.
C6_EofLastAndOnlyLast ==
    /\ result.tag = "Ok" =>
           /\ result.tokens = tokens
           /\ Len(tokens) >= 1
           /\ LastToken(tokens) =
                  [type |-> "Eof", lexeme |-> <<>>, literal |-> <<>>, line |-> line]
    /\ \A i \in 1..Len(tokens) :
           tokens[i].type = "Eof" =>
               /\ i = Len(tokens)
               /\ result.tag = "Ok"
               /\ current >= Len(source)
    /\ Returned => result.tag \in {"Ok", "Err"}

\* C6 witness: a successful scan that emitted tokens across several lines.
C6_Witness ==
    /\ result.tag = "Ok"
    /\ Len(tokens) >= 3
    /\ line >= 2

\* The cursor after the whitespace and comments that start at cursor i, when
\* everything from i to the end of s is whitespace, line comments and
\* well-formed block comments; -1 otherwise.
RECURSIVE SkipEnd(_, _, _)
SkipEnd(s, i, inLine) ==
    IF i >= Len(s) THEN i
    ELSE IF inLine
    THEN SkipEnd(s, i + 1, s[i + 1] # "\n")
    ELSE IF s[i + 1] \in {" ", "\t", "\r", "\n"}
    THEN SkipEnd(s, i + 1, FALSE)
    ELSE IF i + 1 < Len(s) /\ s[i + 1] = "/" /\ s[i + 2] = "/"
    THEN SkipEnd(s, i + 2, TRUE)
    ELSE IF i + 1 < Len(s) /\ s[i + 1] = "/" /\ s[i + 2] = "*"
    THEN IF CommentEnd(s, i + 2, 1) = -1
         THEN -1
         ELSE SkipEnd(s, CommentEnd(s, i + 2, 1), FALSE)
    ELSE -1

OnlyWhitespaceAndComments(s) == SkipEnd(s, 0, FALSE) = Len(s)

\* C7: a source made only of whitespace, line comments and well-formed block
\* comments scans to exactly [Eof], and nothing is appended before that.
C7_WhitespaceAndCommentsOnlyEof ==
    OnlyWhitespaceAndComments(source) =>
        /\ ~Returned => tokens = <<>>
        /\ Returned => /\ result.tag = "Ok"
                       /\ Len(result.tokens) = 1
                       /\ result.tokens[1].type = "Eof"

\* The one- and two-character kinds of the four operators, as the
\* specification's dispatch table lists them.
OneCharKind(c) ==
    CASE c = "!" -> "Bang" [] c = "=" -> "Equal"
      [] c = "<" -> "Less" [] c = ">" -> "Greater"

TwoCharKind(c) ==
    CASE c = "!" -> "BangEqual" [] c = "=" -> "EqualEqual"
      [] c = "<" -> "LessEqual" [] c = ">" -> "GreaterEqual"

\* C8: maximal munch; at the start of a lexeme, one of ! = < > followed by
\* '=' gives exactly one two-character token and the cursor moves by two;
\* followed by anything else or by the end of input it gives the
\* one-character token and the cursor moves by one.
C8_OperatorMaximalMunch ==
    [][(pc = "scan_tokens" /\ current < Len(source)
            /\ source[current + 1] \in {"!", "=", "<", ">"}) =>
        LET c == source[current + 1]
            two == current + 1 < Len(source) /\ source[current + 2] = "="
        IN  /\ tokens' = Append(tokens,
                   [type |-> IF two THEN TwoCharKind(c) ELSE OneCharKind(c),
                    lexeme |-> IF two THEN <<c, "=">> ELSE <<c>>,
                    literal |-> <<>>,
                    line |-> line])
            /\ current' = current + (IF two THEN 2 ELSE 1)
            /\ pc' = "scan_tokens"]_vars

\* C8 witness: "<=" scanned as LessEqual, then '<' before a non-'=' as Less.
C8_Witness ==
    /\ Len(tokens) >= 2
    /\ tokens[1].type = "LessEqual"
    /\ tokens[2].type = "Less"
    /\ current < Len(source)

Letters == {Lower[i] : i \in 1..Len(Lower)} \cup {Upper[i] : i \in 1..Len(Upper)}

DigitChars == {Digits[i] : i \in 1..Len(Digits)}

WordChars == Letters \cup DigitChars \cup {"_"}

\* The sixteen reserved words with their kinds, as the specification lists them.
ReservedWords ==
    { <<<<"a", "n", "d">>, "And">>, <<<<"c", "l", "a", "s", "s">>, "Class">>,
      <<<<"e", "l", "s", "e">>, "Else">>, <<<<"f", "a", "l", "s", "e">>, "False">>,
      <<<<"f", "u", "n">>, "Fun">>, <<<<"f", "o", "r">>, "For">>,
      <<<<"i", "f">>, "If">>, <<<<"n", "i", "l">>, "Nil">>,
      <<<<"o", "r">>, "Or">>, <<<<"p", "r", "i", "n", "t">>, "Print">>,
      <<<<"r", "e", "t", "u", "r", "n">>, "Return">>,
      <<<<"s", "u", "p", "e", "r">>, "Super">>, <<<<"t", "h", "i", "s">>, "This">>,
      <<<<"t", "r", "u", "e">>, "True">>, <<<<"v", "a", "r">>, "Var">>,
      <<<<"w", "h", "i", "l", "e">>, "While">> }

IsReserved(lex) == \E w \in ReservedWords : w[1] = lex

ReservedKind(lex) == (CHOOSE w \in ReservedWords : w[1] = lex)[2]

VarExample == <<"v", "a", "r", " ", "x", " ", "=", " ", "5", ";">>

Classic == <<"c", "l", "a", "s", "s", "i", "c">>

Types(toks) == [i \in 1..Len(toks) |-> toks[i].type]

\* C9: a maximal run of letters, digits and '_' that starts with a letter or
\* '_' yields exactly one token, whose lexeme is the run; the token has the
\* reserved word's kind and an empty literal if and only if the lexeme is one
\* of the sixteen reserved words, and is otherwise an Identifier whose
\* literal is the lexeme. `classic` is one Identifier, and `var x = 5;`
\* scans to Var, Identifier("x"), Equal, Number("5"), Semicolon, Eof.
C9_IdentifierOrKeyword ==
    /\ [][(pc = "scan_tokens" /\ current < Len(source)
               /\ source[current + 1] \in Letters \cup {"_"}) =>
              /\ pc' = "read_identifier"
              /\ start' = current
              /\ current' = current + 1
              /\ tokens' = tokens]_vars
    /\ [][(pc = "read_identifier" /\ pc' = "read_identifier") =>
              /\ source[current + 1] \in WordChars
              /\ start' = start
              /\ current' = current + 1
              /\ tokens' = tokens]_vars
    /\ [][(pc = "read_identifier" /\ pc' # "read_identifier") =>
              LET lex == SubSeq(source, start + 1, current)
                  tok == LastToken(tokens')
              IN  /\ pc' = "scan_tokens"
                  /\ current' = current
                  /\ current = Len(source) \/ source[current + 1] \notin WordChars
                  /\ tokens' = Append(tokens, tok)
                  /\ tok.lexeme = lex
                  /\ tok.line = line
                  /\ IF IsReserved(lex)
                     THEN tok.type = ReservedKind(lex) /\ tok.literal = <<>>
                     ELSE tok.type = "Identifier" /\ tok.literal = lex]_vars
    /\ []((Returned /\ source = Classic) =>
              /\ result.tag = "Ok"
              /\ Types(result.tokens) = <<"Identifier", "Eof">>
              /\ result.tokens[1].literal = Classic)
    /\ []((Returned /\ source = VarExample) =>
              /\ result.tag = "Ok"
              /\ Types(result.tokens) =
                     <<"Var", "Identifier", "Equal", "Number", "Semicolon", "Eof">>
              /\ result.tokens[1].literal = <<>>
              /\ result.tokens[2].literal = <<"x">>
              /\ result.tokens[4].literal = <<"5">>)

\* C9 witness: `var x = 5;` scanned to the end, a reserved word and an
\* identifier among its tokens.
C9_Witness ==
    /\ result.tag = "Ok"
    /\ source = VarExample
    /\ \E i \in 1..Len(tokens) : tokens[i].type = "Var"
    /\ \E i \in 1..Len(tokens) : tokens[i].type = "Identifier"

\* The number of consecutive digits of s from cursor i on.
RECURSIVE DigitRun(_, _)
DigitRun(s, i) ==
    IF i < Len(s) /\ s[i + 1] \in DigitChars THEN 1 + DigitRun(s, i + 1) ELSE 0

\* The cursor after the number literal that starts at cursor st, as section
\* 4.4 of the specification describes it.
NumberEnd(s, st) ==
    LET a == st + DigitRun(s, st)
    IN  IF a + 1 < Len(s) /\ s[a + 1] = "." /\ s[a + 2] \in DigitChars
        THEN a + 1 + DigitRun(s, a + 1)
        ELSE a

InNumber == pc \in {"read_number", "read_number_fraction"}

\* C10: from a digit the scanner consumes the maximal digit run, and a '.'
\* after it only when a digit follows the '.' (then the maximal digit run
\* after it too); it emits one Number token whose lexeme and literal are the
\* text consumed. A '.' followed by a non-digit or by the end of input stays
\* unconsumed and becomes a Dot token: `10.` scans to Number("10"), Dot, Eof.
C10_NumberLiteral ==
    /\ [][(pc = "scan_tokens" /\ current < Len(source)
               /\ source[current + 1] \in DigitChars) =>
              /\ pc' = "read_number"
              /\ start' = current
              /\ tokens' = tokens]_vars
    /\ [](InNumber => start < current /\ current <= NumberEnd(source, start))
    /\ [][(InNumber /\ InNumber') => (tokens' = tokens /\ start' = start)]_vars
    /\ [][(InNumber /\ ~InNumber') =>
              LET text == SubSeq(source, start + 1, NumberEnd(source, start))
              IN  /\ pc' = "scan_tokens"
                  /\ current' = NumberEnd(source, start)
                  /\ tokens' = Append(tokens,
                         [type |-> "Number", lexeme |-> text,
                          literal |-> text, line |-> line])]_vars
    /\ [][(InNumber /\ current < Len(source) /\ source[current + 1] = "."
               /\ (current + 1 = Len(source) \/ source[current + 2] \notin DigitChars)) =>
              (current' = current /\ pc' = "scan_tokens")]_vars
    /\ [][(pc = "scan_tokens" /\ current < Len(source)
               /\ source[current + 1] = ".") =>
              /\ current' = current + 1
              /\ pc' = "scan_tokens"
              /\ tokens' = Append(tokens,
                     [type |-> "Dot", lexeme |-> <<".">>,
                      literal |-> <<>>, line |-> line])]_vars
    /\ []((Returned /\ source = <<"1", "0", ".">>) =>
              /\ result.tag = "Ok"
              /\ Types(result.tokens) = <<"Number", "Dot", "Eof">>
              /\ result.tokens[1].literal = <<"1", "0">>)

\* C10 witness: "1.1." scanned to Number("1.1") then Dot.
C10_Witness ==
    /\ Len(tokens) >= 2
    /\ tokens[1].type = "Number"
    /\ tokens[1].literal = <<"1", ".", "1">>
    /\ tokens[2].type = "Dot"

\* The position (1-based) of the first '"' of s after position p, or 0 if
\* there is none.
FirstQuoteAfter(s, p) ==
    IF \E j \in (p + 1)..Len(s) : s[j] = "\""
    THEN CHOOSE j \in (p + 1)..Len(s) :
             s[j] = "\"" /\ \A k \in (p + 1)..(j - 1) : s[k] # "\""
    ELSE 0

\* The number of '\n' among the code points of s at positions a..b (1-based).
NewlinesIn(s, a, b) == Cardinality({i \in a..b : s[i] = "\n"})

\* The source has no block comment: the line counter is then exact (see C4).
NoBlockComment(s) == \A i \in 1..Len(s) : s[i] # "*"

\* C11: a terminated string literal yields exactly one String token whose
\* lexeme runs from the opening quote to the first following '"', both
\* included, and whose literal is the code points strictly between them;
\* the line counter passes from its value at the opening quote to that
\* value plus the number of '\n' in the body (one per '\n' passed).
C11_StringLiteral ==
    /\ [][(pc = "scan_tokens" /\ current < Len(source)
               /\ source[current + 1] = "\"") =>
              /\ pc' = "read_string"
              /\ start' = current
              /\ current' = current + 1
              /\ line' = line
              /\ tokens' = tokens]_vars
    /\ [][(pc = "read_string" /\ pc' = "read_string") =>
              /\ source[current + 1] # "\""
              /\ current' = current + 1
              /\ line' = line + (IF source[current + 1] = "\n" THEN 1 ELSE 0)
              /\ start' = start
              /\ tokens' = tokens]_vars
    /\ [][(pc = "read_string" /\ FirstQuoteAfter(source, start + 1) # 0) =>
              pc' \in {"read_string", "scan_tokens"}]_vars
    /\ [][(pc = "read_string" /\ pc' = "scan_tokens") =>
              LET close == FirstQuoteAfter(source, start + 1)
              IN  /\ close # 0
                  /\ current = close - 1
                  /\ current' = close
                  /\ line' = line
                  /\ tokens' = Append(tokens,
                         [type |-> "String",
                          lexeme |-> SubSeq(source, start + 1, close),
                          literal |-> SubSeq(source, start + 2, close - 1),
                          line |-> line])
                  /\ NoBlockComment(source) =>
                         line' = 1 + NewlinesBefore(source, start)
                                   + NewlinesIn(source, start + 2, close - 1)]_vars

\* C11 witness: a String token emitted for a literal spanning two lines.
C11_Witness ==
    /\ Len(tokens) >= 1
    /\ tokens[1].type = "String"
    /\ tokens[1].literal = <<"\n", "a">>
    /\ line = 2

Dispatchable ==
    {"(", ")", "{", "}", ",", ".", "-", "+", ";", "*", "!", "=", "<", ">", "/",
     " ", "\t", "\r", "\n", "\""} \cup DigitChars \cup Letters \cup {"_"}

\* C13: a code point at the start of a lexeme that no dispatch case accepts
\* makes the scan fail with the unexpected-character error, whose line is
\* 1 + the number of '\n' consumed before it; the same code point inside a
\* string literal, a line comment or a block comment raises no fault.
C13_UnexpectedCharacter ==
    /\ [][(pc = "scan_tokens" /\ current < Len(source)
               /\ source[current + 1] \notin Dispatchable) =>
              /\ pc' = "returned"
              /\ tokens' = tokens
              /\ result' = [tag |-> "Err",
                            error |-> [message |-> "Unexpected character.",
                                       where |-> <<>>,
                                       line |-> 1 + NewlinesBefore(source, current)]]]_vars
    /\ [][(pc \in {"read_string", "line_comment", "block_comment"}
               /\ current < Len(source)
               /\ source[current + 1] \notin Dispatchable) =>
              /\ result' = result
              /\ pc' = pc
              /\ current' = current + 1]_vars

\* C13 with the line read off the scanner's counter: what the code does.
C13_UnexpectedCharacterAtCounterLine ==
    /\ [][(pc = "scan_tokens" /\ current < Len(source)
               /\ source[current + 1] \notin Dispatchable) =>
              /\ pc' = "returned"
              /\ tokens' = tokens
              /\ result' = [tag |-> "Err",
                            error |-> [message |-> "Unexpected character.",
                                       where |-> <<>>,
                                       line |-> line]]]_vars
    /\ [][(pc \in {"read_string", "line_comment", "block_comment"}
               /\ current < Len(source)
               /\ source[current + 1] \notin Dispatchable) =>
              /\ result' = result
              /\ pc' = pc
              /\ current' = current + 1]_vars

\* C15: a freshly constructed Scanner has an empty token buffer, start = 0,
\* current = 0, line = 1 and a keyword table that maps exactly the sixteen
\* reserved words to their kinds (`nil` to Nil); no scan step modifies the
\* source. (No method assigns self.keywords: the table is a constant here.)
C15_FreshScanner ==
    /\ tokens = <<>> /\ start = 0 /\ current = 0 /\ line = 1
    /\ result = [tag |-> "Pending"]
    /\ DOMAIN keywords = {w[1] : w \in ReservedWords}
    /\ Cardinality(DOMAIN keywords) = 16
    /\ \A w \in ReservedWords : keywords[w[1]] = w[2]
    /\ keywords[<<"n", "i", "l">>] = "Nil"
    /\ [][source' = source]_vars

\* C15 witness: the Scanner as constructed for `var x = 5;`, before any step.
C15_Witness ==
    /\ source = VarExample
    /\ tokens = <<>>
    /\ current = 0
    /\ line = 1
    /\ pc = "scan_tokens"

\* C16: in every reachable state 0 <= start <= current <= length(source);
\* the cursor never moves from the end of the source, and a step moves it by
\* at most two code points, both of them inside the source.
C16_CursorWithinSource ==
    /\ [](0 <= start /\ start <= current /\ current <= Len(source))
    /\ [][current' # current =>
              /\ current < Len(source)
              /\ current' \in {current + 1, current + 2}
              /\ current' <= Len(source)]_vars

\* C16 witness: a two-code-point consume that ends exactly at the end of the
\* source (the operator "<=" as the last lexeme).
C16_Witness ==
    /\ pc = "scan_tokens"
    /\ current = Len(source)
    /\ Len(tokens) >= 2
    /\ LastToken(tokens).type = "LessEqual"

\* Position p (1-based) of s lies in a line comment: some "//" at or before
\* it with no '\n' from there up to p.
InLineComment(s, p) ==
    \E j \in 1..p :
        /\ j + 1 <= Len(s) /\ s[j] = "/" /\ s[j + 1] = "/"
        /\ \A k \in j..p : s[k] # "\n"

\* Position p (1-based) of s lies in a block comment: between some "/*" and
\* some later "*/", delimiters included.
InBlockComment(s, p) ==
    \E j \in 1..p : \E k \in p..Len(s) :
        /\ j + 1 <= Len(s) /\ s[j] = "/" /\ s[j + 1] = "*"
        /\ k >= j + 3 /\ s[k - 1] = "*" /\ s[k] = "/"

CoveredBySpan(p) == \E i \in 1..Len(spans) : spans[i][1] < p /\ p <= spans[i][2]

\* C17: each non-Eof token's lexeme is source[s..e) for the start and
\* current values at its emission, with s < e; the intervals of successive
\* tokens are disjoint and increase in source order; after a successful scan
\* every code point no interval covers is a space, tab, CR, LF or lies in a
\* line or block comment.
C17_LexemePartition ==
    /\ Len(spans) = Cardinality({i \in 1..Len(tokens) : tokens[i].type # "Eof"})
    /\ \A i \in 1..Len(spans) :
           /\ tokens[i].type # "Eof"
           /\ 0 <= spans[i][1] /\ spans[i][1] < spans[i][2]
           /\ spans[i][2] <= Len(source)
           /\ tokens[i].lexeme = SubSeq(source, spans[i][1] + 1, spans[i][2])
    /\ \A i \in 1..(Len(spans) - 1) : spans[i][2] <= spans[i + 1][1]
    /\ result.tag = "Ok" =>
           \A p \in 1..Len(source) :
               \/ CoveredBySpan(p)
               \/ source[p] \in {" ", "\t", "\r", "\n"}
               \/ InLineComment(source, p)
               \/ InBlockComment(source, p)

\* C17 witness: a successful scan with two tokens and skipped text between.
C17_Witness ==
    /\ result.tag = "Ok"
    /\ Len(spans) >= 2
    /\ spans[1][2] < spans[2][1]
    /\ spans[1][1] > 0

SubScannerLoops ==
    {"line_comment", "block_comment", "read_string", "read_number",
     "read_number_fraction", "read_identifier"}

\* C18: every scan eventually returns (tokens or an error); every main-loop
\* iteration that does not return moves the cursor forward, and every
\* iteration of a sub-scanner loop that stays in the loop moves the cursor
\* forward or, in the block comment loop, lowers the nesting counter.
C18_Terminates ==
    /\ <>Returned
    /\ [][/\ (pc = "scan_tokens" /\ pc' # "returned") => current' > current
          /\ (pc \in SubScannerLoops /\ pc' = pc) =>
                 \/ current' > current
                 \/ pc = "block_comment" /\ nesting_layer' < nesting_layer]_vars

\* C18 witness: a scan has returned after the block comment loop counted
\* down at an inner "*/".
C18_Witness ==
    /\ Returned
    /\ result.tag = "Ok"
    /\ source = <<"/", "*", "/", "*", "*", "/">>

\* C19: across every step the cursor and the line counter do not decrease
\* and the token buffer keeps its contents as a prefix; a step appends at
\* most one token, and only a step that ends a main-loop iteration (or the
\* scan) appends, so one iteration appends at most one token.
C19_MonotonicProgress ==
    [][/\ current' >= current
       /\ line' >= line
       /\ Len(tokens') >= Len(tokens)
       /\ SubSeq(tokens', 1, Len(tokens)) = tokens
       /\ Len(tokens') <= Len(tokens) + 1
       /\ pc' \in SubScannerLoops => tokens' = tokens]_vars

\* C19 witness: the scan is at the loop head with three tokens pushed, past
\* a newline.
C19_Witness ==
    /\ pc = "scan_tokens"
    /\ Len(tokens) >= 3
    /\ line >= 2
    /\ current > start

\* C20: while the block comment loop runs the nesting counter is at least
\* 1: it enters at 1, counts down by one only from above 1, and so the
\* end-of-input error always carries ": missing closing */".
C20_NestingAtLeastOne ==
    /\ [](pc = "block_comment" => nesting_layer >= 1)
    /\ [](result.tag = "Err" => result.error.message # "Unbalanced block comment")
    /\ [][/\ (pc # "block_comment" /\ pc' = "block_comment") => nesting_layer' = 1
          /\ (pc = "block_comment" /\ pc' = "block_comment"
                  /\ nesting_layer' < nesting_layer) =>
                 nesting_layer > 1 /\ nesting_layer' = nesting_layer - 1]_vars

\* C20 witness: input ended inside a nested block comment and the error
\* carries the suffix.
C20_Witness ==
    /\ result.tag = "Err"
    /\ result.error.message = "Unbalanced block comment: missing closing */"
    /\ nesting_layer >= 2

-----------------------------------------------------------------------------
(* The Scanner of lib.rs, run on the same source. It reports faults on     *)
(* stderr and keeps scanning, and scan_tokens always returns Ok, so a scan *)
(* is a function of the source: each method is an operator from the        *)
(* scanner's fields [tokens, start, current, line] to their new values,    *)
(* each `while` loop a recursive operator over what the loop changes.      *)

lib_char_at(s, pos) ==
    IF pos >= Len(s) THEN NUL ELSE s[pos + 1]

\* s.chars().skip(start).take(end): `end` code points from `start` on, and the
\* empty string when end >= len as well.
lib_substring(s, st, en) ==
    LET len == Len(s)
    IN  IF st > en \/ st >= len \/ en >= len
        THEN <<>>
        ELSE SubSeq(s, st + 1, IF st + en > len THEN len ELSE st + en)

lib_keywords ==
    (<<"a", "n", "d">> :> "AND")
    @@ (<<"c", "l", "a", "s", "s">> :> "CLASS")
    @@ (<<"e", "l", "s", "e">> :> "ELSE")
    @@ (<<"f", "a", "l", "s", "e">> :> "FALSE")
    @@ (<<"f", "o", "r">> :> "FOR")
    @@ (<<"f", "u", "n">> :> "FUN")
    @@ (<<"i", "f">> :> "IF")
    @@ (<<"n", "i", "l">> :> "NIL")
    @@ (<<"o", "r">> :> "OR")
    @@ (<<"p", "r", "i", "n", "t">> :> "PRINT")
    @@ (<<"r", "e", "t", "u", "r", "n">> :> "RETURN")
    @@ (<<"s", "u", "p", "e", "r">> :> "SUPER")
    @@ (<<"t", "h", "i", "s">> :> "THIS")
    @@ (<<"t", "r", "u", "e">> :> "TRUE")
    @@ (<<"v", "a", "r">> :> "VAR")
    @@ (<<"w", "h", "i", "l", "e">> :> "WHILE")

\* Scanner::new of lib.rs: the line counter starts at 0.
lib_new ==
    [tokens |-> <<>>, start |-> 0, current |-> 0, line |-> 0]

lib_is_at_end(cur) == cur >= Len(source)

lib_is_digit(c) ==
    CodePoint[c] >= CodePoint["0"] /\ CodePoint[c] <= CodePoint["9"]

lib_is_alpha(c) ==
    \/ (CodePoint[c] >= CodePoint["a"] /\ CodePoint[c] <= CodePoint["z"])
    \/ (CodePoint[c] >= CodePoint["A"] /\ CodePoint[c] <= CodePoint["Z"])
    \/ c = "_"

lib_is_alphanumeric(c) == lib_is_alpha(c) \/ lib_is_digit(c)

lib_peek(cur) ==
    IF lib_is_at_end(cur) THEN NUL ELSE lib_char_at(source, cur)

lib_peek_next(cur) ==
    IF cur + 1 >= Len(source) THEN NUL ELSE lib_char_at(source, cur + 1)

\* if p == '\0' || p == c { false } else { self.current += 1; true }
lib_advance_if_equal(cur, c) ==
    LET p == lib_peek(cur)
    IN  IF p = NUL \/ p = c
        THEN [matched |-> FALSE, current |-> cur]
        ELSE [matched |-> TRUE, current |-> cur + 1]

lib_add_token_literal(s, type, literal) ==
    [s EXCEPT !.tokens =
        Append(s.tokens,
               Token(type, lib_substring(source, s.start, s.current), literal, s.line))]

lib_add_token(s, type) == lib_add_token_literal(s, type, <<>>)

\* while self.peek() != '\n' && !self.is_at_end() { self.advance(); }
RECURSIVE lib_line_comment(_)
lib_line_comment(cur) ==
    IF lib_peek(cur) # "\n" /\ ~lib_is_at_end(cur)
    THEN lib_line_comment(cur + 1)
    ELSE cur

\* read_string's loop: the cursor and the line counter after it.
RECURSIVE lib_read_string_loop(_, _)
lib_read_string_loop(cur, ln) ==
    IF lib_peek(cur) # "\"" /\ ~lib_is_at_end(cur)
    THEN lib_read_string_loop(cur + 1, IF lib_peek(cur) = "\n" THEN ln + 1 ELSE ln)
    ELSE [current |-> cur, line |-> ln]

\* An unterminated string is reported and no token is pushed.
lib_read_string(s) ==
    LET l == lib_read_string_loop(s.current, s.line)
        s1 == [s EXCEPT !.current = l.current, !.line = l.line]
    IN  IF lib_is_at_end(s1.current)
        THEN s1
        ELSE LET s2 == [s1 EXCEPT !.current = s1.current + 1]
             IN  lib_add_token_literal(s2, "STRING",
                     lib_substring(source, s2.start + 1, s2.current - 1))

\* while self.is_digit(self.peek()) { self.advance(); }
RECURSIVE lib_digits(_)
lib_digits(cur) ==
    IF lib_is_digit(lib_peek(cur)) THEN lib_digits(cur + 1) ELSE cur

lib_read_number(s) ==
    LET c1 == lib_digits(s.current)
        c2 == IF lib_peek(c1) = "." /\ lib_is_digit(lib_peek_next(c1))
              THEN lib_digits(c1 + 1)
              ELSE c1
        s1 == [s EXCEPT !.current = c2]
    IN  lib_add_token_literal(s1, "NUMBER",
            lib_substring(source, s1.start, s1.current))

\* while self.is_alphanumeric(self.peek()) { self.advance(); }
RECURSIVE lib_alphanumerics(_)
lib_alphanumerics(cur) ==
    IF lib_is_alphanumeric(lib_peek(cur)) THEN lib_alphanumerics(cur + 1) ELSE cur

lib_read_identifier(s) ==
    LET s1 == [s EXCEPT !.current = lib_alphanumerics(s.current)]
        text == lib_substring(source, s1.start, s1.current)
    IN  IF text \in DOMAIN lib_keywords
        THEN lib_add_token(s1, lib_keywords[text])
        ELSE lib_add_token(s1, "IDENTIFIER")

lib_SingleChar ==
    ("(" :> "LEFT_PAREN") @@ (")" :> "RIGHT_PAREN")
    @@ ("{" :> "LEFT_BRACE") @@ ("}" :> "RIGHT_BRACE")
    @@ ("," :> "COMMA") @@ ("." :> "DOT") @@ ("-" :> "MINUS")
    @@ ("+" :> "PLUS") @@ (";" :> "SEMICOLON") @@ ("*" :> "STAR")

\* The arms that call advance_if_equal('='): <<kind if false, kind if true>>.
lib_Operator ==
    ("!" :> <<"BANG", "BANG_EQUAL">>) @@ ("=" :> <<"EQUAL", "EQUAL_EQUAL">>)
    @@ ("<" :> <<"LESS", "LESS_EQUAL">>) @@ (">" :> <<"GREATER", "GREATER_EQUAL">>)

\* scan_token: s.start = s.current on entry; the first line is advance().
lib_scan_token(s) ==
    LET c == lib_char_at(source, s.current)
        s1 == [s EXCEPT !.current = s.current + 1]
    IN  IF c \in DOMAIN lib_SingleChar
        THEN lib_add_token(s1, lib_SingleChar[c])
        ELSE IF c \in DOMAIN lib_Operator
        THEN LET m == lib_advance_if_equal(s1.current, "=")
             IN  lib_add_token([s1 EXCEPT !.current = m.current],
                               IF m.matched THEN lib_Operator[c][2] ELSE lib_Operator[c][1])
        ELSE IF c = "/"
        THEN LET m == lib_advance_if_equal(s1.current, "/")
             IN  IF m.matched
                 THEN [s1 EXCEPT !.current = lib_line_comment(m.current)]
                 ELSE lib_add_token(s1, "SLASH")
        ELSE IF c \in {" ", "\r", "\t"}
        THEN s1
        ELSE IF c = "\""
        THEN lib_read_string(s1)
        ELSE IF c = "\n"
        THEN [s1 EXCEPT !.line = s1.line + 1]
        ELSE IF lib_is_digit(c)
        THEN lib_read_number(s1)
        ELSE IF lib_is_alpha(c)
        THEN lib_read_identifier(s1)
        ELSE s1

\* scan_tokens: the loop, then the push of EOF; the value is the Ok vector.
RECURSIVE lib_scan_tokens_loop(_)
lib_scan_tokens_loop(s) ==
    IF ~lib_is_at_end(s.current)
    THEN lib_scan_tokens_loop(lib_scan_token([s EXCEPT !.start = s.current]))
    ELSE s

lib_scan_tokens ==
    LET s == lib_scan_tokens_loop(lib_new)
    IN  Append(s.tokens, Token("EOF", <<>>, <<>>, s.line))

-----------------------------------------------------------------------------
\* The token kind of scanner.rs each kind of lib.rs corresponds to.
KindOfLib ==
    ("LEFT_PAREN" :> "LeftParen") @@ ("RIGHT_PAREN" :> "RightParen")
    @@ ("LEFT_BRACE" :> "LeftBrace") @@ ("RIGHT_BRACE" :> "RightBrace")
    @@ ("COMMA" :> "Comma") @@ ("DOT" :> "Dot") @@ ("MINUS" :> "Minus")
    @@ ("PLUS" :> "Plus") @@ ("SEMICOLON" :> "Semicolon") @@ ("SLASH" :> "Slash")
    @@ ("STAR" :> "Star") @@ ("BANG" :> "Bang") @@ ("BANG_EQUAL" :> "BangEqual")
    @@ ("EQUAL" :> "Equal") @@ ("EQUAL_EQUAL" :> "EqualEqual")
    @@ ("GREATER" :> "Greater") @@ ("GREATER_EQUAL" :> "GreaterEqual")
    @@ ("LESS" :> "Less") @@ ("LESS_EQUAL" :> "LessEqual")
    @@ ("IDENTIFIER" :> "Identifier") @@ ("STRING" :> "String")
    @@ ("NUMBER" :> "Number") @@ ("AND" :> "And") @@ ("CLASS" :> "Class")
    @@ ("ELSE" :> "Else") @@ ("FALSE" :> "False") @@ ("FUN" :> "Fun")
    @@ ("FOR" :> "For") @@ ("IF" :> "If") @@ ("NIL" :> "Nil") @@ ("OR" :> "Or")
    @@ ("PRINT" :> "Print") @@ ("RETURN" :> "Return") @@ ("SUPER" :> "Super")
    @@ ("THIS" :> "This") @@ ("TRUE" :> "True") @@ ("VAR" :> "Var")
    @@ ("WHILE" :> "While") @@ ("EOF" :> "Eof")

LibKinds == [i \in 1..Len(lib_scan_tokens) |-> KindOfLib[lib_scan_tokens[i].type]]

NoSlashStar(s) == \A i \in 1..(Len(s) - 1) : ~(s[i] = "/" /\ s[i + 1] = "*")

\* C21: on a source without `/*` that scanner.rs scans without a fault,
\* the Scanner of lib.rs emits the same sequence of token kinds.
C21_VariantsAgree ==
    (result.tag = "Ok" /\ NoSlashStar(source)) => LibKinds = Types(result.tokens)

\* What does hold: the two agree where the source has none of ! = < > /
\* (the arms that call advance_if_equal) and scanner.rs finds no keyword.
C21_VariantsAgreeWithoutLookahead ==
    (/\ result.tag = "Ok"
     /\ \A i \in 1..Len(source) : source[i] \notin {"!", "=", "<", ">", "/"}
     /\ \A i \in 1..Len(result.tokens) : ~IsReserved(result.tokens[i].lexeme))
        => LibKinds = Types(result.tokens)

-----------------------------------------------------------------------------
(* The helper functions called on their own, as the unit tests call them:  *)
(* source holds the string argument, start and current the index           *)
(* arguments (substring's start and end; char_at's pos is start), and      *)
(* result the value returned.                                              *)

HelperStrings == SeqsUpTo({"a", "b", "\n"}, MaxStrLen)

HelperInit ==
    /\ source \in HelperStrings
    /\ start \in 0..MaxIndex
    /\ current \in 0..MaxIndex
    /\ pc = "call"
    /\ result = Pending
    /\ tokens = <<>>
    /\ line = 1
    /\ nesting_layer = 0
    /\ spans = <<>>

CallSubstring ==
    /\ pc = "call"
    /\ result' = [tag |-> "substring", value |-> substring(source, start, current)]
    /\ pc' = "returned"
    /\ UNCHANGED <<source, tokens, start, current, line, nesting_layer, spans>>

CallCharAt ==
    /\ pc = "call"
    /\ result' = [tag |-> "char_at", value |-> char_at(source, start)]
    /\ pc' = "returned"
    /\ UNCHANGED <<source, tokens, start, current, line, nesting_layer, spans>>

HelperNext == CallSubstring \/ CallCharAt

HelperSpec == HelperInit /\ [][HelperNext]_vars

\* C22: substring(s, start, end) is empty when start > end or
\* start >= length(s), and otherwise the code points of s at positions
\* [start, min(end, length(s))) in order; char_at(s, pos) is the code point
\* at pos when pos < length(s) and '\0' otherwise.
C22_SubstringAndCharAt ==
    /\ result.tag = "substring" =>
           IF start > current \/ start >= Len(source)
           THEN result.value = <<>>
           ELSE LET stop == IF current < Len(source) THEN current ELSE Len(source)
                IN  /\ Len(result.value) = stop - start
                    /\ \A i \in 1..(stop - start) :
                           result.value[i] = source[start + i]
    /\ result.tag = "char_at" =>
           result.value = IF start < Len(source) THEN source[start + 1] ELSE NUL

\* C22 witness: substring returned a non-empty slice that starts inside the
\* string and whose end was cut back to the string's length.
C22_Witness ==
    /\ result.tag = "substring"
    /\ start > 0
    /\ start < Len(source)
    /\ current > Len(source)
    /\ result.value = SubSeq(source, start + 1, Len(source))
    /\ Len(result.value) >= 2

====
